---- MODULE Spec2Model ----
(***************************************************************************)
(* Model of the Voise speech-recognition engine for the Asterisk generic   *)
(* speech API (res_speech_voise.c): load_module, the engine callbacks      *)
(* voise_create, voise_start, voise_write, voise_destroy, voise_change and *)
(* voise_change_results_type, the silence-detection DSP they drive, the    *)
(* remote streaming calls they issue, and the result builder               *)
(* __voise_set_result; and of the VoiseSay dialplan application            *)
(* (app_voise_speech.c).                                                   *)
(***************************************************************************)
EXTENDS Integers, Sequences, FiniteSets, TLC

VARIABLES
    data,          \* speech->data: "NULL", "alloc" or "freed"
    client,        \* voise_info->client: "NULL", "open" or "closed"
    alive,         \* FALSE once the process has dereferenced a NULL DSP
    state,         \* speech->state
    flags,         \* speech->flags, as the set of flags that are set
    results,       \* speech->results, the linked list as a sequence
    results_type,  \* speech->results_type
    initsil,       \* voise_info->initsil (ms)
    maxsil,        \* voise_info->maxsil (ms)
    abs_timeout,   \* voise_info->abs_timeout (s)
    heardspeech,   \* voise_info->heardspeech (0 or 1)
    noiseframes,   \* voise_info->noiseframes
    start_time,    \* voise_info->start_time (s)
    dsp,           \* voise_info->dsp: the silence detector, or not allocated
    response,      \* the voise_response_t filled by the last stop call
    now,           \* the wall clock read by time() (s)
    live,          \* remote streaming sessions started and not yet stopped/closed
    opens,         \* successful stream opens so far
    frameNo,       \* frames written since the last voise_start
    last,          \* the last callback: its name, status, remote call and branch
    verbose,       \* voise_info->verbose
    mem,           \* the bytes of voise_info->lang, asr_engine and model_name[0]
    changes,       \* calls of voise_change so far
    module,        \* what load_module did: configuration, registration, status
    say            \* one execution of VoiseSay: position, options, resources

vars == <<data, client, alive, state, flags, results, results_type, initsil,
          maxsil, abs_timeout, heardspeech, noiseframes, start_time, dsp,
          response, now, live, opens, frameNo, last, verbose, mem, changes,
          module, say>>

(***************************************************************************)
(* Program constants.                                                      *)
(***************************************************************************)
VOISE_NOISE_FRAMES == 1
VOISE_SILENCE_THRESHOLD == 2000
VOISE_MAX_NBEST == 1
SampleRate == 8000
FrameSamples == 160
STREAM_STARTED == 201
LangSize == 10
AsrEngineSize == 10
AST_MODULE_LOAD_FAILURE == -1
VOISE_BUFFER_SIZE == 160
BytesPerSample == 1

\* C strings are sequences of one-character strings; NUL ends a string in
\* memory.
NUL == ""
VOISE_DEF_LANG == <<"p", "t", "-", "B", "R">>
VOISE_DEF_ASR_ENGINE == <<"m", "e">>
VOISE_DEF_VERBOSE == <<"0">>

\* Duration of one frame in ms, as the DSP computes it: len / (rate / 1000).
FrameMs == FrameSamples \div (SampleRate \div 1000)

(***************************************************************************)
(* Bounds of the model.                                                    *)
(***************************************************************************)
MaxTime == 1
MaxFrames == 3
MaxOpens == 2
MaxChanges == 1
MaxChangeFrames == 4
MaxSayFrames == 2

\* Thresholds the configuration file can give (atoi of the configured text).
InitSilValues == {-1, 0, 40}
MaxSilValues == {-1, 0, 20}
AbsTimeoutValues == {0, 1}

\* Average frame amplitudes fed to the DSP: just below and at the threshold.
FrameLevels == {VOISE_SILENCE_THRESHOLD - 1, VOISE_SILENCE_THRESHOLD}

\* Confidence and probability are held as numerators over ScoreDen, a power
\* of two, so that every product is exact in binary floating point.
ScoreDen == 2 * 2 * 2

Resp(c, p, u, i) ==
    [confidence |-> c, probability |-> p, utterance |-> u, intent |-> i]

NoResponse == Resp(0, 0, "", "")

\* Responses of the remote service in the engine's state machine.
Responses == {Resp(ScoreDen - 1, ScoreDen, "sim", "confirm")}

\* Responses used to exercise the result builder alone.
AllResponses ==
    {Resp(c, p, u, "i") : c \in -2..10, p \in 0..9, u \in {"", "sim"}}

StopOutcomes ==
    {[ok |-> FALSE, resp |-> NoResponse]} \cup {[ok |-> TRUE, resp |-> r] : r \in Responses}

\* What voise_start_streaming_recognize can answer: its return value and the
\* result code of the response (201, or a refusal).
StartOutcomes == {[ret |-> r, result_code |-> c] : r \in {-1, 0}, c \in {STREAM_STARTED, 500}}
CreateOutcomes == {"nomem", "nocfg", "noconn", "ok"}
ResultsTypes == {"NORMAL", "NBEST"}

NoDsp == [alloc |-> FALSE, threshold |-> 0, totalsilence |-> 0]
NoResult == [score |-> 0, text |-> "NULL", grammar |-> "NULL"]
Last(op, ret, call, rule) == [op |-> op, ret |-> ret, call |-> call, rule |-> rule]

(***************************************************************************)
(* C strings and the character arrays of struct voise_speech_info.         *)
(***************************************************************************)
Digits == <<"0", "1", "2", "3", "4", "5", "6", "7", "8", "9">>

IsDigit(c) == \E d \in 1..Len(Digits) : Digits[d] = c

DigitValue(c) == (CHOOSE d \in 1..Len(Digits) : Digits[d] = c) - 1

RECURSIVE AtoiDigits(_, _, _)
AtoiDigits(str, i, acc) ==
    IF i > Len(str) \/ ~IsDigit(str[i]) THEN acc
    ELSE AtoiDigits(str, i + 1, acc * 10 + DigitValue(str[i]))

RECURSIVE SkipSpaces(_, _)
SkipSpaces(str, i) ==
    IF i <= Len(str) /\ str[i] = " " THEN SkipSpaces(str, i + 1) ELSE i

\* atoi: leading blanks are skipped, an optional sign is read, then the
\* decimal digits up to the first character that is not one; 0 without digits.
Atoi(str) ==
    LET i == SkipSpaces(str, 1)
    IN  IF i <= Len(str) /\ str[i] = "-" THEN -AtoiDigits(str, i + 1, 0)
        ELSE IF i <= Len(str) /\ str[i] = "+" THEN AtoiDigits(str, i + 1, 0)
        ELSE AtoiDigits(str, i, 0)

\* Offsets of lang, asr_engine and model_name in mem, which holds the three
\* adjacent character arrays of the structure up to model_name[0].
LangOff == 0
AsrEngineOff == LangOff + LangSize
ModelNameOff == AsrEngineOff + AsrEngineSize
MemSize == ModelNameOff + 1

\* ast_calloc: every byte is zero.
ZeroMem == [i \in 1..MemSize |-> NUL]

\* strncpy(dst, src, strlen(src)); dst[strlen(src)] = 0, dst at offset off:
\* the bytes land wherever the length of src takes them.
StrSet(m, off, src) ==
    [i \in 1..Len(m) |->
        IF i > off /\ i <= off + Len(src) THEN src[i - off]
        ELSE IF i = off + Len(src) + 1 THEN NUL
        ELSE m[i]]

\* The write of StrSet goes past the end of an array of the given size.
Overflows(size, src) == Len(src) >= size

\* The C string read at offset off: the bytes up to the first NUL.
CStr(m, off) ==
    LET n == CHOOSE k \in 0..(Len(m) - off) :
                 /\ \A j \in 1..k : m[off + j] # NUL
                 /\ (k = Len(m) - off \/ m[off + k + 1] = NUL)
    IN  SubSeq(m, off + 1, off + n)

\* __voise_get_lang and __voise_get_asr_engine.
lang == CStr(mem, LangOff)
asr_engine == CStr(mem, AsrEngineOff)

(***************************************************************************)
(* The silence detector.                                                   *)
(***************************************************************************)
\* ast_dsp_new followed by ast_dsp_set_threshold.
ast_dsp_new == [alloc |-> TRUE, threshold |-> VOISE_SILENCE_THRESHOLD, totalsilence |-> 0]

\* ast_dsp_silence: a frame is silent when its average amplitude is below the
\* threshold; silence accumulates per frame and a voiced frame clears it.
\* Mutation: a voiced frame leaves the accumulated silence alone.
ast_dsp_silence_NoReset(d, level) ==
    LET silent == level < d.threshold
    IN  [silence |-> silent,
         dsp |-> [d EXCEPT !.totalsilence = IF silent THEN @ + FrameMs ELSE @]]

ast_dsp_silence(d, level) ==
    LET silent == level < d.threshold
    IN  [silence |-> silent,
         dsp |-> [d EXCEPT !.totalsilence = IF silent THEN @ + FrameMs ELSE 0]]

(***************************************************************************)
(* Result builder.                                                         *)
(***************************************************************************)
\* The C conversion (int)x of the rational a/b: truncation toward zero.
TruncDiv(a, b) == IF a >= 0 THEN a \div b ELSE -((-a) \div b)

\* (int)(confidence * probability * 100)
Score(resp) == TruncDiv(resp.confidence * resp.probability * 100, ScoreDen * ScoreDen)

\* The loop of __voise_set_result from iteration ibest on, result pointing at
\* element pos of the list: the element is filled; without n-best the loop
\* ends; with n-best a zeroed element replaces whatever followed and result
\* moves on to it.
RECURSIVE SetResultLoop(_, _, _, _, _)
SetResultLoop(list, type, resp, ibest, pos) ==
    IF ibest >= VOISE_MAX_NBEST THEN list
    ELSE LET filled == [list EXCEPT ![pos] = [score |-> Score(resp),
                                              text |-> resp.utterance,
                                              grammar |-> resp.intent]]
         IN  IF type # "NBEST" THEN filled
             ELSE SetResultLoop(SubSeq(filled, 1, pos) \o <<NoResult>>,
                                type, resp, ibest + 1, pos + 1)

\* The list left in speech->results by __voise_set_result: the head is
\* allocated when the list is empty, then the loop runs from the head.
SetResultList(res, type, resp) ==
    SetResultLoop(IF res = <<>> THEN <<NoResult>> ELSE res, type, resp, 0, 1)

\* Mutation: the have-results flag is added to the flags that are set.
SetResultFlags_Added(fl) == fl \cup {"HAVE_RESULTS"}

SetResultFlags(fl) == {"HAVE_RESULTS"}

SetResultState == "DONE"

(***************************************************************************)
(* voise_write: the branch conditions, in the order the code tests them.   *)
(***************************************************************************)
\* Mutation: speech is confirmed one voiced frame early.
NoiseConfirmed_Early(n) == n >= VOISE_NOISE_FRAMES

\* Mutation: speech is confirmed one voiced frame late.
NoiseConfirmed_Late(n) == n > VOISE_NOISE_FRAMES + 1

NoiseConfirmed(n) == n > VOISE_NOISE_FRAMES

\* Mutation: the initial-silence comparison is strict.
InitSilenceReached_Strict(heard, silence, isil, totalsil) ==
    heard = 0 /\ silence /\ isil >= 0 /\ isil < totalsil

InitSilenceReached(heard, silence, isil, totalsil) ==
    heard = 0 /\ silence /\ isil >= 0 /\ isil <= totalsil

\* Mutation: the trailing-silence comparison is strict.
MaxSilenceReached_Strict(heard, silence, msil, totalsil) ==
    heard = 1 /\ silence /\ msil >= 0 /\ msil < totalsil

MaxSilenceReached(heard, silence, msil, totalsil) ==
    heard = 1 /\ silence /\ msil >= 0 /\ msil <= totalsil

\* Mutation: the absolute-timeout comparison is strict.
AbsTimeoutReached_Strict(abst, cur, start) ==
    abst > 0 /\ abst < cur - start

AbsTimeoutReached(abst, cur, start) ==
    abst > 0 /\ abst <= cur - start

\* Mutation: the absolute timeout is tested before the silence timeouts.
WriteBranch_AbsFirst(heard, silence, isil, msil, abst, totalsil, cur, start) ==
    IF heard = 0 /\ ~silence THEN "speech"
    ELSE IF AbsTimeoutReached(abst, cur, start) THEN "abs"
    ELSE IF InitSilenceReached(heard, silence, isil, totalsil) THEN "initsil"
    ELSE IF MaxSilenceReached(heard, silence, msil, totalsil) THEN "maxsil"
    ELSE IF silence THEN "silence"
    ELSE "none"

\* Mutation: the absolute timeout is tested before the onset step as well.
WriteBranch_AbsOverOnset(heard, silence, isil, msil, abst, totalsil, cur, start) ==
    IF AbsTimeoutReached(abst, cur, start) THEN "abs"
    ELSE IF heard = 0 /\ ~silence THEN "speech"
    ELSE IF InitSilenceReached(heard, silence, isil, totalsil) THEN "initsil"
    ELSE IF MaxSilenceReached(heard, silence, msil, totalsil) THEN "maxsil"
    ELSE IF silence THEN "silence"
    ELSE "none"

WriteBranch(heard, silence, isil, msil, abst, totalsil, cur, start) ==
    IF heard = 0 /\ ~silence THEN "speech"
    ELSE IF InitSilenceReached(heard, silence, isil, totalsil) THEN "initsil"
    ELSE IF MaxSilenceReached(heard, silence, msil, totalsil) THEN "maxsil"
    ELSE IF AbsTimeoutReached(abst, cur, start) THEN "abs"
    ELSE IF silence THEN "silence"
    ELSE "none"

\* Mutation: a failed stop is treated like a successful one.
StateAfterStopError_Done(st) == "DONE"

StateAfterStopError(st) == "NOT_READY"

\* Mutation: a failed push leaves the state alone.
StateAfterPushError_Keep(st) == st

StateAfterPushError(st) == "NOT_READY"

(***************************************************************************)
(* Initial state: the module not loaded yet, the speech structure as the   *)
(* host allocates it, the application not running.                         *)
(***************************************************************************)
NotLoaded == [load |-> "none", config |-> "unread", registered |-> FALSE, status |-> 0]

SayIdle ==
    [pc |-> "idle", option_verbose |-> 0, option_beep |-> 0,
     option_no_hangup_on_err |-> 0, vcfg |-> "none", cfg_destroys |-> 0,
     user_adds |-> 0, user_removes |-> 0, client |-> "NULL", closes |-> 0,
     result_code |-> 0, beeps |-> 0, iterations |-> 0, reads |-> 0,
     written |-> 0, exit |-> "none", ret |-> 0]

Init ==
    /\ data = "NULL"
    /\ client = "NULL"
    /\ alive = TRUE
    /\ state = "NOT_READY"
    /\ flags = {}
    /\ results = <<>>
    /\ results_type = "NORMAL"
    /\ initsil = 0
    /\ maxsil = 0
    /\ abs_timeout = 0
    /\ heardspeech = 0
    /\ noiseframes = 0
    /\ start_time = 0
    /\ dsp = NoDsp
    /\ response = NoResponse
    /\ now = 0
    /\ live = 0
    /\ opens = 0
    /\ frameNo = 0
    /\ last = Last("none", 0, "none", "none")
    /\ verbose = 0
    /\ mem = ZeroMem
    /\ changes = 0
    /\ module = NotLoaded
    /\ say = SayIdle

Usable == alive /\ data = "alloc" /\ client = "open"

(***************************************************************************)
(* load_module, with __init_voise_res_speech                               *)
(***************************************************************************)
\* __init_voise_res_speech: 1 when voise.conf can be loaded, -1 otherwise.
init_voise_res_speech(cfgOK) == IF cfgOK THEN 1 ELSE -1

\* Mutation: a configuration that cannot be read fails the load.
load_status_Strict(init, capOK, regOK) ==
    IF init = 1
    THEN IF ~capOK THEN AST_MODULE_LOAD_FAILURE ELSE IF ~regOK THEN -1 ELSE 0
    ELSE AST_MODULE_LOAD_FAILURE

\* The value load_module returns.
load_status(init, capOK, regOK) ==
    IF init = 1
    THEN IF ~capOK THEN AST_MODULE_LOAD_FAILURE ELSE IF ~regOK THEN -1 ELSE 0
    ELSE 0

\* ast_speech_register is reached, and succeeds.
load_registers(init, capOK, regOK) == init = 1 /\ capOK /\ regOK

load_module(cfgOK, capOK, regOK) ==
    /\ alive
    /\ module.load = "none"
    /\ LET init == init_voise_res_speech(cfgOK)
       IN  /\ module' = [load |-> "done",
                         config |-> IF cfgOK THEN "read" ELSE "unreadable",
                         registered |-> load_registers(init, capOK, regOK),
                         status |-> load_status(init, capOK, regOK)]
           /\ last' = Last("load", load_status(init, capOK, regOK), "none", "none")
    /\ UNCHANGED <<data, client, alive, state, flags, results, results_type,
                   initsil, maxsil, abs_timeout, heardspeech, noiseframes,
                   start_time, dsp, response, now, live, opens, frameNo,
                   verbose, mem, changes, say>>

(***************************************************************************)
(* voise_create: the host creates speech objects for a registered engine.  *)
(* The configuration file gives the thresholds; verbose, lang and          *)
(* asr_engine are left to their defaults.                                  *)
(***************************************************************************)
voise_create(outcome, isil, msil, abst) ==
    /\ alive
    /\ module.registered
    /\ data = "NULL"
    /\ data' = IF outcome = "nomem" THEN "NULL" ELSE "alloc"
    /\ IF outcome \in {"noconn", "ok"}
       THEN /\ verbose' = Atoi(VOISE_DEF_VERBOSE)
            /\ mem' = StrSet(StrSet(ZeroMem, LangOff, VOISE_DEF_LANG),
                             AsrEngineOff, VOISE_DEF_ASR_ENGINE)
            /\ initsil' = isil /\ maxsil' = msil /\ abs_timeout' = abst
       ELSE UNCHANGED <<verbose, mem, initsil, maxsil, abs_timeout>>
    /\ client' = IF outcome = "ok" THEN "open" ELSE client
    /\ state' = IF outcome = "ok" THEN "NOT_READY" ELSE state
    /\ last' = Last("create", IF outcome = "ok" THEN 0 ELSE -1,
                    IF outcome \in {"noconn", "ok"} THEN "init" ELSE "none", "none")
    /\ UNCHANGED <<alive, flags, results, results_type, heardspeech, noiseframes,
                   start_time, dsp, response, now, live, opens, frameNo,
                   changes, module, say>>

(***************************************************************************)
(* voise_start, with __reinit_speech_controls                              *)
(***************************************************************************)
\* Mutation: a detector that exists is kept instead of being re-created.
ReinitDsp_Reuse(old, dspOK) ==
    IF old.alloc THEN old ELSE IF dspOK THEN ast_dsp_new ELSE NoDsp

\* The detector after __reinit_speech_controls: the old one is freed and a new
\* one allocated, or none when the allocation fails.
ReinitDsp(old, dspOK) == IF dspOK THEN ast_dsp_new ELSE NoDsp

\* Mutation: the result of __reinit_speech_controls is not tested.
StartSucceeds_IgnoreDsp(dspOK, outcome) ==
    outcome.ret >= 0 /\ outcome.result_code = STREAM_STARTED

\* voise_start reaches its end: the detector was allocated, the stream open
\* returned no error and the response carries 201.
StartSucceeds(dspOK, outcome) ==
    dspOK /\ outcome.ret >= 0 /\ outcome.result_code = STREAM_STARTED

voise_start(dspOK, outcome) ==
    /\ alive
    /\ UNCHANGED <<verbose, mem, changes, module, say>>
    /\ \/ /\ data = "NULL"
          /\ last' = Last("start", -1, "none", "none")
          /\ UNCHANGED <<data, client, alive, state, flags, results, results_type,
                         initsil, maxsil, abs_timeout, heardspeech, noiseframes,
                         start_time, dsp, response, now, live, opens, frameNo>>
       \/ /\ Usable
          /\ heardspeech' = 0
          /\ noiseframes' = 0
          /\ frameNo' = 0
          /\ dsp' = ReinitDsp(dsp, dspOK)
          /\ IF StartSucceeds(dspOK, outcome)
             THEN /\ start_time' = now
                  /\ state' = "READY"
                  /\ live' = live + 1
                  /\ opens' = opens + 1
                  /\ last' = Last("start", 0, "open", "none")
             ELSE /\ start_time' = 0
                  /\ last' = Last("start", -1, IF dspOK THEN "open" ELSE "none", "none")
                  /\ UNCHANGED <<state, live, opens>>
          /\ UNCHANGED <<data, client, alive, flags, results, results_type,
                         initsil, maxsil, abs_timeout, response, now>>

(***************************************************************************)
(* voise_write                                                             *)
(***************************************************************************)
\* Mutation: the frame is forwarded after a finalize as well.
FrameForwarded_Always(branch) == TRUE

\* The frame reaches voise_data_streaming_recognize: every finalizing branch
\* returns before it.
FrameForwarded(branch) == branch \notin {"initsil", "maxsil", "abs"}

\* The remote calls one voise_write has issued.
RemoteCalls(stopped, pushed) ==
    IF stopped /\ pushed THEN "stop+push"
    ELSE IF stopped THEN "stop"
    ELSE IF pushed THEN "push"
    ELSE "none"

voise_write(level, stop, pushOK) ==
    /\ alive
    /\ UNCHANGED <<verbose, mem, changes, module, say>>
    /\ \/ /\ data = "NULL"
          /\ last' = Last("write", -1, "none", "none")
          /\ UNCHANGED <<data, client, alive, state, flags, results, results_type,
                         initsil, maxsil, abs_timeout, heardspeech, noiseframes,
                         start_time, dsp, response, now, live, opens, frameNo>>
       \/ /\ Usable
          /\ ~dsp.alloc
          /\ alive' = FALSE
          /\ last' = Last("write", -1, "none", "crash")
          /\ UNCHANGED <<data, client, state, flags, results, results_type,
                         initsil, maxsil, abs_timeout, heardspeech, noiseframes,
                         start_time, dsp, response, now, live, opens, frameNo>>
       \/ /\ Usable
          /\ dsp.alloc
          /\ LET r == ast_dsp_silence(dsp, level)
                 silence == r.silence
                 totalsil == r.dsp.totalsilence
                 branch == WriteBranch(heardspeech, silence, initsil, maxsil,
                                       abs_timeout, totalsil, now, start_time)
                 confirmed == branch = "speech" /\ NoiseConfirmed(noiseframes + 1)
             IN  /\ dsp' = r.dsp
                 /\ frameNo' = frameNo + 1
                 /\ IF branch \in {"initsil", "maxsil", "abs"}
                    THEN \* voise_stop_streaming_recognize, then the result or the error
                         /\ live' = IF live > 0 THEN live - 1 ELSE 0
                         /\ IF stop.ok
                            THEN /\ response' = stop.resp
                                 /\ results' = SetResultList(results, results_type, stop.resp)
                                 /\ flags' = SetResultFlags(flags)
                                 /\ state' = SetResultState
                                 /\ last' = Last("write", 0,
                                                 RemoteCalls(TRUE, FrameForwarded(branch)),
                                                 branch)
                            ELSE /\ state' = StateAfterStopError(state)
                                 /\ last' = Last("write", -1,
                                                 RemoteCalls(TRUE, FrameForwarded(branch)),
                                                 branch)
                                 /\ UNCHANGED <<response, results, flags>>
                         /\ UNCHANGED <<heardspeech, noiseframes>>
                    ELSE \* bookkeeping of the branch, then voise_data_streaming_recognize
                         /\ heardspeech' = IF confirmed THEN 1 ELSE heardspeech
                         /\ noiseframes' = IF branch = "speech"
                                           THEN (IF confirmed THEN 0 ELSE noiseframes + 1)
                                           ELSE IF branch = "silence" THEN 0
                                           ELSE noiseframes
                         /\ flags' = IF confirmed THEN flags \cup {"QUIET", "SPOKE"} ELSE flags
                         /\ state' = IF pushOK THEN state ELSE StateAfterPushError(state)
                         /\ last' = Last("write", IF pushOK THEN 0 ELSE -1,
                                         RemoteCalls(FALSE, FrameForwarded(branch)), branch)
                         /\ UNCHANGED <<response, results, live>>
          /\ UNCHANGED <<data, client, alive, results_type, initsil, maxsil,
                         abs_timeout, start_time, now, opens>>

(***************************************************************************)
(* voise_destroy                                                           *)
(***************************************************************************)
\* Mutation: the client is left open.
voise_close_Skipped(c) == c

\* voise_close: the connection to the server, and any stream on it, is closed.
voise_close(c) == "closed"

voise_destroy ==
    /\ alive
    /\ UNCHANGED <<verbose, mem, changes, module, say>>
    /\ \/ /\ data = "NULL"
          /\ last' = Last("destroy", -1, "none", "none")
          /\ UNCHANGED <<data, client, live>>
       \/ /\ Usable
          /\ client' = voise_close(client)
          /\ data' = "freed"
          /\ live' = 0
          /\ last' = Last("destroy", 0, "close", "none")
    /\ UNCHANGED <<alive, state, flags, results, results_type, initsil, maxsil,
                   abs_timeout, heardspeech, noiseframes, start_time, dsp,
                   response, now, opens, frameNo>>

(***************************************************************************)
(* voise_change_results_type: the engine only logs; the host stores the    *)
(* requested type in speech->results_type.                                 *)
(***************************************************************************)
voise_change_results_type(type) ==
    /\ Usable
    /\ UNCHANGED <<verbose, mem, changes, module, say>>
    /\ results_type' = type
    /\ last' = Last("change_results_type", 0, "none", "none")
    /\ UNCHANGED <<data, client, alive, state, flags, results, initsil, maxsil,
                   abs_timeout, heardspeech, noiseframes, start_time, dsp,
                   response, now, live, opens, frameNo>>

(***************************************************************************)
(* voise_change                                                            *)
(***************************************************************************)
\* The attribute names voise_change compares the name with, in its order.
KnownNames ==
    {"verbose", "language", "lang", "asr_engine", "initsil", "maxsil", "abs_timeout"}

\* The branch of the strcmp chain a name takes.
ChangeBranch(name) == IF name \in KnownNames THEN name ELSE "unknown"

\* Mutation: the setter leaves the stored threshold alone.
voise_set_threshold_Ignored(old, v) == old

\* __voise_set_initsilence, __voise_set_maxsilence, __voise_set_abstimeout:
\* the value is stored as it is.
voise_set_threshold(old, v) == v

\* The array a name writes to overflows with this value.
ChangeOverflows(name, value) ==
    \/ name \in {"language", "lang"} /\ Overflows(LangSize, value)
    \/ name = "asr_engine" /\ Overflows(AsrEngineSize, value)

\* ub: what an out-of-bounds store does in this build: it lands in the bytes
\* that follow the array ("store"), or instrumentation stops the process
\* ("trap").
voise_change(name, value, ub) ==
    /\ alive
    /\ changes' = changes + 1
    /\ \/ /\ data = "NULL"
          \* every setter fails; the status of the verbose setter is not read
          /\ last' = Last("change",
                          IF ChangeBranch(name) \in {"verbose", "unknown"} THEN 0 ELSE -1,
                          "none", ChangeBranch(name))
          /\ UNCHANGED <<alive, verbose, mem, initsil, maxsil, abs_timeout>>
       \/ /\ data = "alloc"
          /\ ChangeOverflows(name, value) /\ ub = "trap"
          /\ alive' = FALSE
          /\ last' = Last("change", -1, "none", "crash")
          /\ UNCHANGED <<verbose, mem, initsil, maxsil, abs_timeout>>
       \/ /\ data = "alloc"
          /\ ~(ChangeOverflows(name, value) /\ ub = "trap")
          /\ verbose' = IF name = "verbose" THEN Atoi(value) ELSE verbose
          /\ mem' = IF name \in {"language", "lang"} THEN StrSet(mem, LangOff, value)
                    ELSE IF name = "asr_engine" THEN StrSet(mem, AsrEngineOff, value)
                    ELSE mem
          /\ initsil' = IF name = "initsil"
                        THEN voise_set_threshold(initsil, Atoi(value)) ELSE initsil
          /\ maxsil' = IF name = "maxsil"
                       THEN voise_set_threshold(maxsil, Atoi(value)) ELSE maxsil
          /\ abs_timeout' = IF name = "abs_timeout"
                            THEN voise_set_threshold(abs_timeout, Atoi(value))
                            ELSE abs_timeout
          /\ last' = Last("change", 0, "none", ChangeBranch(name))
          /\ UNCHANGED alive
    /\ UNCHANGED <<data, client, state, flags, results, results_type, heardspeech,
                   noiseframes, start_time, dsp, response, now, live, opens,
                   frameNo, module, say>>

(***************************************************************************)
(* The wall clock advances between callbacks.                              *)
(***************************************************************************)
Tick ==
    /\ now < MaxTime
    /\ now' = now + 1
    /\ UNCHANGED <<verbose, mem, changes, module, say>>
    /\ UNCHANGED <<data, client, alive, state, flags, results, results_type,
                   initsil, maxsil, abs_timeout, heardspeech, noiseframes,
                   start_time, dsp, response, live, opens, frameNo, last>>

Load == \E c \in BOOLEAN, f \in BOOLEAN, r \in BOOLEAN : load_module(c, f, r)

Create == \E o \in CreateOutcomes, i \in InitSilValues, m \in MaxSilValues,
             a \in AbsTimeoutValues : voise_create(o, i, m, a)

Start == opens < MaxOpens /\ \E d \in BOOLEAN, o \in StartOutcomes : voise_start(d, o)

Write == frameNo < MaxFrames /\
         \E lv \in FrameLevels, s \in StopOutcomes, p \in BOOLEAN : voise_write(lv, s, p)

Destroy == voise_destroy

ChangeResultsType == \E t \in ResultsTypes : voise_change_results_type(t)

Next == Load \/ Create \/ Start \/ Write \/ Destroy \/ ChangeResultsType \/ Tick

Spec == Init /\ [][Next]_vars

(***************************************************************************)
(* The attributes of a speech object changed through voise_change, before  *)
(* and during one recognition attempt. The engine is registered; the       *)
(* configuration file gives two frames of initial and of trailing silence  *)
(* and no absolute timeout.                                                *)
(***************************************************************************)
\* The (name, value) pairs voise_change is called with: every known name, a
\* name that is not an attribute, a language code as long as the lang array,
\* and a value with characters after its digits.
ChangeInputs ==
    { <<"verbose", <<"1">>>>,
      <<"language", <<"e", "n">>>>,
      <<"lang", <<"z", "h", "-", "H", "a", "n", "s", "-", "C", "N">>>>,
      <<"asr_engine", <<"g">>>>,
      <<"initsil", <<"2", "0">>>>,
      <<"maxsil", <<"2", "0", "m", "s">>>>,
      <<"abs_timeout", <<"1">>>>,
      <<"timeout", <<"1">>>> }

UbOutcomes == {"store", "trap"}

InitChange ==
    /\ Init!1 /\ Init!2 /\ Init!3 /\ Init!4 /\ Init!5 /\ Init!6 /\ Init!7
    /\ initsil = 0
    /\ maxsil = 0
    /\ abs_timeout = 0
    /\ heardspeech = 0
    /\ noiseframes = 0
    /\ start_time = 0
    /\ dsp = NoDsp
    /\ response = NoResponse
    /\ now = 0
    /\ live = 0
    /\ opens = 0
    /\ frameNo = 0
    /\ last = Last("load", 0, "none", "none")
    /\ verbose = 0
    /\ mem = ZeroMem
    /\ changes = 0
    /\ module = [load |-> "done", config |-> "read", registered |-> TRUE, status |-> 0]
    /\ say = SayIdle

CreateChange == \E o \in CreateOutcomes : voise_create(o, 2 * FrameMs, 2 * FrameMs, 0)

Change == changes < MaxChanges /\
          \E in \in ChangeInputs, ub \in UbOutcomes : voise_change(in[1], in[2], ub)

StartOnce == opens = 0 /\ \E d \in BOOLEAN, o \in StartOutcomes : voise_start(d, o)

WriteChange == frameNo < MaxChangeFrames /\
               \E lv \in FrameLevels, s \in StopOutcomes, p \in BOOLEAN : voise_write(lv, s, p)

NextChange == CreateChange \/ Change \/ StartOnce \/ WriteChange \/ Tick

SpecChange == InitChange /\ [][NextChange]_vars

(***************************************************************************)
(* One attempt in which frames keep arriving once the absolute timeout has *)
(* elapsed, and the clock advances: the frame bound applies to the frames  *)
(* written before the timeout elapses only.                                *)
(***************************************************************************)
WriteElapsed ==
    /\ Usable /\ state = "READY" /\ dsp.alloc
    /\ abs_timeout > 0 /\ now - start_time >= abs_timeout
    /\ \E lv \in FrameLevels, s \in StopOutcomes, p \in BOOLEAN : voise_write(lv, s, p)

NextTimeout == CreateChange \/ Change \/ StartOnce \/ WriteChange \/ Tick \/ WriteElapsed

SpecTimeout ==
    InitChange /\ [][NextTimeout]_vars /\ WF_vars(Tick) /\ WF_vars(WriteElapsed)

(***************************************************************************)
(* The VoiseSay application: voise_say_exec from the call to the playback  *)
(* loop, then the loop, one iteration per step, up to the return.          *)
(***************************************************************************)
\* strchr(options, c) finds the character.
HasOption(options, c) == \E i \in 1..Len(options) : options[i] = c

\* Option strings given to the application.
SayOptions == {<<>>, <<"v">>, <<"b">>, <<"n">>, <<"b", "n">>, <<"v", "b", "n">>}

\* debug.verbose of voise.conf: absent (the default is used), or "1".
SayVerboseTexts == {VOISE_DEF_VERBOSE, <<"1">>}

\* Result codes of voise_start_synth: 201, or a refusal.
SynthCodes == {STREAM_STARTED, 500}

\* What ast_waitfor returns: an error, a timeout, or the time left.
WaitResults == {-1, 0, 1}

\* What ast_read returns: no frame (hang-up), a voice frame or another frame.
FrameTypes == {"none", "voice", "dtmf"}

\* Byte counts voise_read_synth can return for one chunk.
SynthCounts == {0, VOISE_BUFFER_SIZE - 1, VOISE_BUFFER_SIZE}

\* Mutation: an exit path that returns without closing the client.
SayReturn_KeepClient(sy, exit, ret, removeUser, closeClient, destroyCfg) ==
    [sy EXCEPT !.pc = "returned",
               !.exit = exit,
               !.ret = ret,
               !.user_removes = IF removeUser THEN @ + 1 ELSE @,
               !.vcfg = IF destroyCfg THEN "destroyed" ELSE @,
               !.cfg_destroys = IF destroyCfg THEN @ + 1 ELSE @]

\* The return of voise_say_exec at the given exit, with the module user
\* removed, the client closed and the configuration destroyed as the exit
\* path does.
SayReturn(sy, exit, ret, removeUser, closeClient, destroyCfg) ==
    [sy EXCEPT !.pc = "returned",
               !.exit = exit,
               !.ret = ret,
               !.user_removes = IF removeUser THEN @ + 1 ELSE @,
               !.client = IF closeClient THEN "closed" ELSE @,
               !.closes = IF closeClient THEN @ + 1 ELSE @,
               !.vcfg = IF destroyCfg THEN "destroyed" ELSE @,
               !.cfg_destroys = IF destroyCfg THEN @ + 1 ELSE @]

\* The status returned when the synthesis session is refused.
SynthRefusedStatus(no_hangup) == -1

voise_say_exec(noData, noText, options, vverbose, cfgOK, wOK, rOK, connOK, code) ==
    /\ say.pc = "idle"
    /\ LET opts == [say EXCEPT
                       !.option_verbose = IF HasOption(options, "v") THEN 1 ELSE 0,
                       !.option_beep = IF HasOption(options, "b") THEN 1 ELSE 0,
                       !.option_no_hangup_on_err = IF HasOption(options, "n") THEN 1 ELSE 0]
           loaded == [opts EXCEPT
                       !.vcfg = "loaded",
                       !.option_verbose = IF @ = 0 THEN Atoi(vverbose) ELSE @,
                       !.user_adds = @ + 1]
           connected == [loaded EXCEPT !.client = "open"]
           started == [connected EXCEPT
                       !.result_code = code,
                       !.vcfg = "destroyed",
                       !.cfg_destroys = @ + 1,
                       !.beeps = IF loaded.option_beep = 1 THEN @ + 1 ELSE @,
                       !.pc = "loop"]
       IN  say' =
             IF noData THEN SayReturn(say, "nodata", -1, FALSE, FALSE, FALSE)
             ELSE IF noText THEN SayReturn(say, "notext", -1, FALSE, FALSE, FALSE)
             ELSE IF ~cfgOK THEN SayReturn(opts, "noconfig", -1, FALSE, FALSE, FALSE)
             ELSE IF ~wOK THEN SayReturn(loaded, "wformat", -1, TRUE, FALSE, TRUE)
             ELSE IF ~rOK THEN SayReturn(loaded, "rformat", -1, TRUE, FALSE, TRUE)
             ELSE IF ~connOK THEN SayReturn(loaded, "noconnect", -1, TRUE, FALSE, TRUE)
             ELSE IF code # STREAM_STARTED
                  THEN SayReturn([connected EXCEPT !.result_code = code], "refused",
                                 SynthRefusedStatus(connected.option_no_hangup_on_err),
                                 TRUE, TRUE, TRUE)
             ELSE started
    /\ UNCHANGED <<data, client, alive, state, flags, results, results_type,
                   initsil, maxsil, abs_timeout, heardspeech, noiseframes,
                   start_time, dsp, response, now, live, opens, frameNo, last,
                   verbose, mem, changes, module>>

\* Mutation: only an empty chunk ends the playback.
SynthDone_Empty(count, nbytes) == count = 0

\* done = 1: the chunk is shorter than the frame.
SynthDone(count, nbytes) == count < nbytes

\* One iteration of the playback loop, and the end of the function when the
\* iteration leaves the loop.
voise_say_loop(ms, frametype, count) ==
    /\ say.pc = "loop"
    /\ LET iter == [say EXCEPT !.iterations = @ + 1]
           nbytes == FrameSamples * BytesPerSample
           played == [iter EXCEPT !.reads = @ + 1, !.written = @ + count]
       IN  say' =
             IF ms < 0 THEN SayReturn(iter, "wait", -1, TRUE, TRUE, FALSE)
             ELSE IF frametype = "none" THEN SayReturn(iter, "hangup", -1, TRUE, TRUE, FALSE)
             ELSE IF frametype = "voice"
                  THEN IF SynthDone(count, nbytes)
                       THEN SayReturn(played, "end", 0, TRUE, TRUE, FALSE)
                       ELSE played
             ELSE iter
    /\ UNCHANGED <<data, client, alive, state, flags, results, results_type,
                   initsil, maxsil, abs_timeout, heardspeech, noiseframes,
                   start_time, dsp, response, now, live, opens, frameNo, last,
                   verbose, mem, changes, module>>

SayExec ==
    \E de \in BOOLEAN, te \in BOOLEAN, o \in SayOptions, v \in SayVerboseTexts,
       c \in BOOLEAN, w \in BOOLEAN, r \in BOOLEAN, n \in BOOLEAN,
       code \in SynthCodes :
        voise_say_exec(de, te, o, v, c, w, r, n, code)

SayLoop ==
    say.iterations < MaxSayFrames /\
    \E ms \in WaitResults, f \in FrameTypes, n \in SynthCounts : voise_say_loop(ms, f, n)

NextSay == SayExec \/ SayLoop

SpecSay == Init /\ [][NextSay]_vars

\* The channel delivers a voice frame and the synthesizer returns a chunk
\* shorter than the frame: an iteration that is possible as long as the loop
\* runs, however many iterations have been made.
SayShortChunk ==
    \E ms \in WaitResults, n \in SynthCounts :
        /\ ms >= 0
        /\ SynthDone(n, FrameSamples * BytesPerSample)
        /\ voise_say_loop(ms, "voice", n)

NextSayLive == SayExec \/ SayLoop \/ SayShortChunk

\* The application run with voice frames that keep arriving and a synthesizer
\* that runs out of audio: the short-chunk iteration is not postponed forever.
SpecSayLive == Init /\ [][NextSayLive]_vars /\ WF_vars(SayShortChunk)

(***************************************************************************)
(* The result builder on its own: __voise_set_result applied to every      *)
(* response of AllResponses, with and without n-best results requested.    *)
(***************************************************************************)
InitScore ==
    /\ data = "alloc"
    /\ client = "open"
    /\ alive = TRUE
    /\ state = "READY"
    /\ flags = {}
    /\ results = <<>>
    /\ results_type \in ResultsTypes
    /\ initsil = 0
    /\ maxsil = 0
    /\ abs_timeout = 0
    /\ heardspeech = 0
    /\ noiseframes = 0
    /\ start_time = 0
    /\ dsp = [ast_dsp_new EXCEPT !.totalsilence = FrameMs]
    /\ response \in AllResponses
    /\ now = 0
    /\ live = 0
    /\ opens = 1
    /\ frameNo = 1
    /\ last = Last("write", 0, "stop", "initsil")
    /\ verbose = Atoi(VOISE_DEF_VERBOSE)
    /\ mem = StrSet(StrSet(ZeroMem, LangOff, VOISE_DEF_LANG),
                    AsrEngineOff, VOISE_DEF_ASR_ENGINE)
    /\ changes = 0
    /\ module = [load |-> "done", config |-> "read", registered |-> TRUE, status |-> 0]
    /\ say = SayIdle

voise_set_result ==
    /\ state = "READY"
    /\ UNCHANGED <<verbose, mem, changes, module, say>>
    /\ results' = SetResultList(results, results_type, response)
    /\ flags' = SetResultFlags(flags)
    /\ state' = SetResultState
    /\ UNCHANGED <<data, client, alive, results_type, initsil, maxsil, abs_timeout,
                   heardspeech, noiseframes, start_time, dsp, response, now, live,
                   opens, frameNo, last>>

NextScore == voise_set_result

SpecScore == InitScore /\ [][NextScore]_vars

(***************************************************************************)
(* Notions shared by the properties below.                                 *)
(***************************************************************************)
\* The phase the specification calls Listening: samples are accepted.
Listening == Usable /\ state = "READY"

\* Every frame written since the last voise_start was silent.
AllSilent == dsp.alloc /\ dsp.totalsilence = FrameMs * frameNo

\* The frame written by this step was classified as voiced.
VoicedFrame == dsp'.totalsilence = 0

\* The frame written before this one, in the same attempt, was voiced.
PreviousVoiced == frameNo >= 1 /\ dsp.totalsilence = 0

\* The absolute timeout is enabled and has elapsed at the time of the call.
AbsElapsed == abs_timeout > 0 /\ now - start_time >= abs_timeout

SpeechFlags == {"QUIET", "SPOKE"}

(***************************************************************************)
(* C1                                                                      *)
(***************************************************************************)
\* C1 as stated: in Listening with initsil enabled and only silent frames fed,
\* the frame is answered by stop-and-collect exactly when the cumulative
\* silence has reached initsil, and every earlier frame is pushed.
C1_Original ==
    [][(Write /\ Listening /\ initsil > 0 /\ AllSilent')
        => (IF dsp'.totalsilence >= initsil
            THEN last'.call = "stop"
            ELSE last'.call = "push")]_vars

\* C1 amended: in Listening with initsil enabled and only silent frames fed,
\* the frame at which the cumulative silence reaches initsil is answered by
\* stop-and-collect under the initial-silence rule, and every earlier frame is
\* pushed unless the absolute timeout is enabled and has already elapsed.
C1_InitialSilence ==
    [][(Write /\ Listening /\ initsil > 0 /\ AllSilent')
        => /\ dsp'.totalsilence >= initsil
                => (last'.call = "stop" /\ last'.rule = "initsil")
           /\ (dsp'.totalsilence < initsil /\ ~AbsElapsed)
                => (last'.call = "push" /\ state' # "DONE")
           /\ (dsp'.totalsilence < initsil /\ AbsElapsed)
                => (last'.call = "stop" /\ last'.rule = "abs")]_vars

\* An all-silent attempt finalized by the initial-silence rule on its second
\* frame (initsil = 2 frames), the first frame having been pushed.
C1_Witness ==
    /\ last.op = "write" /\ last.call = "stop" /\ last.rule = "initsil"
    /\ initsil = 2 * FrameMs
    /\ frameNo = 2
    /\ AllSilent
    /\ state = "DONE"

(***************************************************************************)
(* C2                                                                      *)
(***************************************************************************)
\* The step confirms speech onset: a voiced frame, not yet heard, directly
\* after another voiced frame of the same attempt.
Onset == heardspeech = 0 /\ VoicedFrame /\ PreviousVoiced

\* C2: within an attempt heardspeech never goes from 1 to 0 and goes from 0 to 1
\* exactly on the second consecutive voiced frame; a silent frame restarts the
\* run; QUIET and SPOKE are raised on that frame and on no other.
C2_HeardSpeechOnce ==
    [][/\ (Write /\ Listening)
            => /\ heardspeech' >= heardspeech
               /\ (heardspeech' # heardspeech) <=> Onset
               /\ Onset => SpeechFlags \subseteq flags'
               /\ ~Onset => (flags' \ flags) \cap SpeechFlags = {}
               /\ (heardspeech = 0 /\ ~VoicedFrame /\ state' = "READY")
                    => noiseframes' = 0
       /\ heardspeech' < heardspeech => last'.op = "start"]_vars

\* Speech confirmed on the third frame of an attempt: silent, voiced, voiced.
C2_Witness ==
    /\ last.op = "write" /\ last.rule = "speech"
    /\ heardspeech = 1
    /\ frameNo = 3
    /\ SpeechFlags \subseteq flags
    /\ state = "READY"

(***************************************************************************)
(* C3                                                                      *)
(***************************************************************************)
\* The trailing-silence condition holds for the frame written by this step.
TrailingSilence ==
    heardspeech = 1 /\ ~VoicedFrame /\ maxsil > 0 /\ dsp'.totalsilence >= maxsil

\* C3 as stated: when the trailing-silence and the absolute-timeout conditions
\* hold on the same frame the finalize is taken by the absolute-timeout rule.
C3_Original ==
    [][(Write /\ Listening /\ TrailingSilence /\ AbsElapsed)
        => (last'.call = "stop" /\ last'.rule = "abs")]_vars

\* C3 amended: when both conditions hold on the same frame the finalize is
\* taken by the trailing-silence rule, which is tested first; the absolute
\* timeout finalizes a voiced frame once speech was heard.
C3_TimeoutPriority ==
    [][(Write /\ Listening /\ AbsElapsed)
        => /\ TrailingSilence => (last'.call = "stop" /\ last'.rule = "maxsil")
           /\ (heardspeech = 1 /\ VoicedFrame)
                => (last'.call = "stop" /\ last'.rule = "abs")]_vars

\* A finalize by the trailing-silence rule on a frame at which the absolute
\* timeout had elapsed as well.
C3_Witness ==
    /\ last.op = "write" /\ last.call = "stop" /\ last.rule = "maxsil"
    /\ heardspeech = 1
    /\ maxsil > 0
    /\ AbsElapsed

(***************************************************************************)
(* C4                                                                      *)
(***************************************************************************)
\* C4 as stated: voise_start called while an attempt is Listening is rejected
\* with a negative status, opens no second remote streaming session and
\* leaves the detection state of the running attempt untouched.
C4_Original ==
    [][(Start /\ Listening)
        => /\ last'.ret < 0
           /\ opens' = opens
           /\ UNCHANGED <<heardspeech, noiseframes, start_time, dsp>>]_vars

(***************************************************************************)
(* C5                                                                      *)
(***************************************************************************)
\* C5 as stated: no attempt has more than one live remote streaming session,
\* and whenever the attempt has ended (the state is no longer READY, or the
\* engine was destroyed) no session opened for it is still live.
C5_Original ==
    /\ live <= 1
    /\ (data # "NULL" /\ state # "READY") => live = 0
    /\ client = "closed" => live = 0

(***************************************************************************)
(* C6                                                                      *)
(***************************************************************************)
\* C6 as stated: a threshold with a disabling value never finalizes: no frame
\* is finalized by the initial-silence rule when initsil <= 0, by the
\* trailing-silence rule when maxsil <= 0, by the absolute timeout when
\* abs_timeout = 0.
C6_Original ==
    [][Write
        => /\ initsil <= 0 => last'.rule # "initsil"
           /\ maxsil <= 0 => last'.rule # "maxsil"
           /\ abs_timeout = 0 => last'.rule # "abs"]_vars

C8_Finalize ==
    [][(Write /\ Listening /\ last'.call = "stop")
        => IF last'.ret = 0
           THEN /\ state' = "DONE"
                /\ "HAVE_RESULTS" \in flags'
                /\ results' # <<>>
                /\ results'[1].text = response'.utterance
                /\ results'[1].grammar = response'.intent
           ELSE /\ last'.ret < 0
                /\ state' = "NOT_READY"
                /\ results' = results
                /\ flags' = flags]_vars

\* A failed stop in an attempt that follows a finalized one: the state is
\* NOT_READY and the earlier result list is still there.
C8_Witness ==
    /\ last.op = "write" /\ last.call = "stop" /\ last.ret < 0
    /\ state = "NOT_READY"
    /\ results # <<>>
    /\ opens = 2

(***************************************************************************)
(* C9                                                                      *)
(***************************************************************************)
\* C9 as stated: the result list built from one response has exactly one
\* element, within 1..VOISE_MAX_NBEST, whether or not n-best was requested.
C9_Original ==
    (last.op = "write" /\ last.call = "stop" /\ last.ret = 0)
        => (Len(results) = 1 /\ Len(results) <= VOISE_MAX_NBEST)

(***************************************************************************)
(* C10                                                                     *)
(***************************************************************************)
\* round(a / b), halves away from zero.
RoundDiv(a, b) ==
    IF a >= 0 THEN (2 * a + b) \div (2 * b) ELSE -((2 * (-a) + b) \div (2 * b))

Clamp(x) == IF x < 0 THEN 0 ELSE IF x > 100 THEN 100 ELSE x

\* C10 as stated: the primary score is round(confidence * probability * 100)
\* clamped to 0..100.
C10_Original ==
    state = "DONE"
        => results[1].score =
             Clamp(RoundDiv(response.confidence * response.probability * 100,
                            ScoreDen * ScoreDen))

(***************************************************************************)
(* C11                                                                     *)
(***************************************************************************)
\* The step is a call voise_change(name, value) on an allocated speech object.
Changing(name, value) ==
    data = "alloc" /\ \E ub \in UbOutcomes : voise_change(name, value, ub)

\* C11 as stated: voise_change with a name that is not an attribute returns 0
\* and changes no configuration field; with a known name it changes no field
\* but the named one; the state, the detection state and the remote session
\* are never changed.
C11_Original ==
    [][\A in \in ChangeInputs :
        Changing(in[1], in[2])
            => /\ in[1] \notin KnownNames
                    => /\ last'.ret = 0
                       /\ UNCHANGED <<verbose, mem, initsil, maxsil, abs_timeout>>
               /\ in[1] # "verbose" => verbose' = verbose
               /\ in[1] \notin {"language", "lang"} => lang' = lang
               /\ in[1] # "asr_engine" => asr_engine' = asr_engine
               /\ in[1] # "initsil" => initsil' = initsil
               /\ in[1] # "maxsil" => maxsil' = maxsil
               /\ in[1] # "abs_timeout" => abs_timeout' = abs_timeout
               /\ UNCHANGED <<state, heardspeech, noiseframes, start_time, dsp,
                              client, live>>]_vars

(***************************************************************************)
(* C12                                                                     *)
(***************************************************************************)
\* C12: a threshold changed through voise_change is stored as atoi of the
\* given text, and every later voise_write decides with the stored values:
\* initial silence, trailing silence and absolute timeout are tested against
\* initsil, maxsil and abs_timeout as they are at the time of the write.
C12_ChangedThresholdUsed ==
    [][/\ \A in \in ChangeInputs :
            Changing(in[1], in[2])
                => /\ in[1] = "initsil" => initsil' = Atoi(in[2])
                   /\ in[1] = "maxsil" => maxsil' = Atoi(in[2])
                   /\ in[1] = "abs_timeout" => abs_timeout' = Atoi(in[2])
       /\ (WriteChange /\ Usable /\ dsp.alloc)
            => LET sil == ~VoicedFrame
                   tot == dsp'.totalsilence
                   initReached == heardspeech = 0 /\ sil /\ initsil >= 0 /\ tot >= initsil
                   maxReached == heardspeech = 1 /\ sil /\ maxsil >= 0 /\ tot >= maxsil
               IN  /\ initReached => (last'.call = "stop" /\ last'.rule = "initsil")
                   /\ maxReached => (last'.call = "stop" /\ last'.rule = "maxsil")
                   /\ (~initReached /\ ~maxReached /\ (heardspeech = 1 \/ sil))
                        => IF AbsElapsed
                           THEN last'.call = "stop" /\ last'.rule = "abs"
                           ELSE last'.call = "push"]_vars

\* maxsil changed from the configured two frames to one: the first silent
\* frame after speech is finalized by the trailing-silence rule.
C12_Witness ==
    /\ changes = 1
    /\ maxsil = FrameMs
    /\ last.op = "write" /\ last.call = "stop" /\ last.rule = "maxsil"
    /\ heardspeech = 1
    /\ dsp.totalsilence = FrameMs

(***************************************************************************)
(* C13                                                                     *)
(***************************************************************************)
\* C13: every successful voise_start leaves a fresh detection state whatever
\* the previous attempt did: heardspeech 0, noiseframes 0, a new detector with
\* no accumulated silence, and the current time as start time.
C13_FreshDetectionState ==
    [][(Start /\ Usable /\ last'.ret = 0)
        => /\ heardspeech' = 0
           /\ noiseframes' = 0
           /\ dsp'.alloc /\ dsp'.totalsilence = 0
           /\ start_time' = now
           /\ state' = "READY"]_vars

\* A second attempt started after one in which speech was heard (its SPOKE
\* flag is still set): nothing of it is left in the detection state.
C13_Witness ==
    /\ last.op = "start" /\ last.ret = 0
    /\ opens = 2
    /\ "SPOKE" \in flags
    /\ heardspeech = 0 /\ noiseframes = 0 /\ dsp.totalsilence = 0
    /\ start_time = now

(***************************************************************************)
(* C14                                                                     *)
(***************************************************************************)
\* C14 as stated: when the remote side refuses the stream open, voise_start
\* returns a negative status, the state afterwards is the error state and not
\* READY, and no start time is recorded.
C14_Original ==
    [][(Start /\ Usable /\ last'.call = "open" /\ last'.ret < 0)
        => /\ state' = "NOT_READY"
           /\ start_time' = 0]_vars

(***************************************************************************)
(* C15                                                                     *)
(***************************************************************************)
\* C15: voise_destroy while Listening closes the client at once, issues no
\* stop call (nothing of a final result is produced) and returns 0.
C15_DestroyWhileListening ==
    [][(Destroy /\ Listening)
        => /\ last'.call = "close" /\ last'.ret = 0
           /\ client' = "closed"
           /\ live' = 0
           /\ UNCHANGED <<state, flags, results, response>>]_vars

\* The engine destroyed in the middle of an attempt that had heard speech.
C15_Witness ==
    /\ last.op = "destroy" /\ last.call = "close" /\ last.ret = 0
    /\ client = "closed"
    /\ state = "READY"
    /\ heardspeech = 1
    /\ results = <<>>

(***************************************************************************)
(* C16                                                                     *)
(***************************************************************************)
\* C16 as stated: DONE is entered only from READY through a finalize; once the
\* state is DONE or NOT_READY it becomes READY only through voise_start; and
\* DONE never turns into NOT_READY.
C16_Original ==
    [][/\ (state # "DONE" /\ state' = "DONE")
            => (state = "READY" /\ last'.call = "stop")
       /\ (state # "READY" /\ state' = "READY") => last'.op = "start"
       /\ state = "DONE" => state' # "NOT_READY"]_vars

(***************************************************************************)
(* C17                                                                     *)
(***************************************************************************)
\* C17 as stated: a voise_write made while the state is not READY issues no
\* push and no stop call and changes neither the detection state nor the
\* state.
C17_Original ==
    [][(Write /\ Usable /\ state # "READY")
        => /\ last'.call \notin {"push", "stop"}
           /\ UNCHANGED <<state, heardspeech, noiseframes, dsp>>]_vars

(***************************************************************************)
(* C18                                                                     *)
(***************************************************************************)
\* C18 as stated: after speech was heard, a silent frame is answered by
\* stop-and-collect exactly when the uninterrupted silence has reached maxsil
\* (enabled); every earlier silent frame of the run is pushed.
C18_Original ==
    [][(WriteChange /\ Listening /\ heardspeech = 1 /\ maxsil > 0 /\ ~VoicedFrame)
        => (IF dsp'.totalsilence >= maxsil
            THEN last'.call = "stop"
            ELSE last'.call = "push")]_vars

\* C18 amended: after speech was heard, the silent frame at which the
\* uninterrupted silence reaches maxsil is answered by stop-and-collect under
\* the trailing-silence rule; an earlier silent frame of the run is pushed
\* unless the absolute timeout is enabled and has elapsed; a voiced frame
\* restarts the silence count.
C18_TrailingSilence ==
    [][(WriteChange /\ Listening /\ heardspeech = 1 /\ maxsil > 0)
        => /\ (~VoicedFrame /\ dsp'.totalsilence >= maxsil)
                => (last'.call = "stop" /\ last'.rule = "maxsil")
           /\ (~VoicedFrame /\ dsp'.totalsilence < maxsil /\ ~AbsElapsed)
                => (last'.call = "push" /\ dsp'.totalsilence = dsp.totalsilence + FrameMs)
           /\ (~VoicedFrame /\ dsp'.totalsilence < maxsil /\ AbsElapsed)
                => (last'.call = "stop" /\ last'.rule = "abs")
           /\ (VoicedFrame /\ ~AbsElapsed)
                => (last'.call = "push" /\ dsp'.totalsilence = 0)]_vars

\* Speech heard on the second frame, one silent frame pushed, and the second
\* silent frame reaches maxsil (two frames) and is finalized by the
\* trailing-silence rule.
C18_Witness ==
    /\ last.op = "write" /\ last.call = "stop" /\ last.rule = "maxsil"
    /\ heardspeech = 1
    /\ maxsil = 2 * FrameMs
    /\ dsp.totalsilence = maxsil
    /\ frameNo = 4

(***************************************************************************)
(* C19                                                                     *)
(***************************************************************************)
\* C19 as stated: when VoiseSay returns because the synthesis session was
\* refused (a result code other than 201), it returns -1 exactly when the
\* option n was not given.
C19_Original ==
    (say.pc = "returned" /\ say.exit = "refused")
        => IF say.option_no_hangup_on_err = 1 THEN say.ret # -1 ELSE say.ret = -1

(***************************************************************************)
(* C20                                                                     *)
(***************************************************************************)
\* C20: when voise.conf cannot be read at load time, load_module does not
\* register the engine (so no speech object is ever created) and returns 0,
\* the status that lets the host go on; a load that reports a failure had
\* read its configuration.
C20_LoadWithoutConfig ==
    /\ module.config = "unreadable"
        => /\ ~module.registered
           /\ module.status = 0
           /\ data = "NULL"
    /\ (module.load = "done" /\ module.status # 0) => module.config = "read"

\* The module loaded without its configuration file.
C20_Witness ==
    /\ module.load = "done"
    /\ module.config = "unreadable"
    /\ ~module.registered
    /\ last.op = "load" /\ last.ret = 0

(***************************************************************************)
(* C21                                                                       *)
(***************************************************************************)
\* The step is a voise_write in Listening that ran to its return: the
\* detector exists and has classified the frame.
Processed ==
    /\ Listening /\ dsp.alloc
    /\ \E lv \in FrameLevels, s \in StopOutcomes, p \in BOOLEAN : voise_write(lv, s, p)

\* C21: a frame written in Listening takes exactly one branch, in the fixed
\* order onset, silence timeouts, absolute timeout, otherwise: a voiced frame
\* before speech was heard takes the onset step and is pushed even when the
\* absolute timeout has elapsed; a silent frame that satisfies an enabled
\* silence timeout is finalized by that rule whether or not the absolute
\* timeout has elapsed; the absolute timeout finalizes only frames that took
\* neither; every other frame is pushed.
C21_RulePriority ==
    [][Processed
        => LET sil == ~VoicedFrame
               tot == dsp'.totalsilence
               onset == heardspeech = 0 /\ ~sil
               initRule == heardspeech = 0 /\ sil /\ initsil > 0 /\ tot >= initsil
               maxRule == heardspeech = 1 /\ sil /\ maxsil > 0 /\ tot >= maxsil
               zeroRule == sil /\ (IF heardspeech = 0 THEN initsil = 0 ELSE maxsil = 0)
           IN  /\ onset => (last'.rule = "speech" /\ last'.call = "push")
               /\ initRule => (last'.rule = "initsil" /\ last'.call = "stop")
               /\ maxRule => (last'.rule = "maxsil" /\ last'.call = "stop")
               /\ (~onset /\ ~initRule /\ ~maxRule /\ ~zeroRule)
                    => IF AbsElapsed
                       THEN last'.rule = "abs" /\ last'.call = "stop"
                       ELSE last'.rule \in {"silence", "none"} /\ last'.call = "push"]_vars

\* A voiced frame written before speech was heard, after the absolute timeout
\* had elapsed: it took the onset step and was pushed.
C21_Witness ==
    /\ last.op = "write" /\ last.rule = "speech" /\ last.call = "push"
    /\ AbsElapsed
    /\ state = "READY"
    /\ noiseframes = 1

(***************************************************************************)
(* C22                                                                       *)
(***************************************************************************)
\* C22: when voise_start cannot allocate the silence detector it returns a
\* negative status, issues no stream-open call, records no start time and
\* does not change the state (it does not move it to READY).
C22_NoDetector ==
    [][(Start /\ Usable /\ ~dsp'.alloc)
        => /\ last'.op = "start" /\ last'.ret < 0
           /\ last'.call = "none"
           /\ start_time' = 0
           /\ UNCHANGED <<state, live, opens>>]_vars

\* A first voise_start whose detector allocation failed: no call was made and
\* the state is still NOT_READY.
C22_Witness ==
    /\ last.op = "start" /\ last.ret = -1 /\ last.call = "none"
    /\ ~dsp.alloc
    /\ Usable
    /\ state = "NOT_READY"
    /\ opens = 0 /\ live = 0
    /\ start_time = 0

(***************************************************************************)
(* C23                                                                       *)
(***************************************************************************)
\* The step is one iteration of the playback loop with these inputs.
Playing(ms, f, n) == say.pc = "loop" /\ voise_say_loop(ms, f, n)

\* C23: an iteration of the playback loop returns -1 when the wait fails or
\* the read gives no frame; on a voice frame it reads one chunk and returns 0
\* exactly when the chunk is shorter than the frame's byte length; any other
\* frame reads no chunk and stays in the loop; and when voice frames keep
\* arriving and the synthesizer returns a short chunk, the loop is left.
C23_PlaybackLoop ==
    /\ [][\A ms \in WaitResults, f \in FrameTypes, n \in SynthCounts :
            Playing(ms, f, n)
                => LET nbytes == FrameSamples * BytesPerSample
                   IN  /\ (ms < 0 \/ f = "none")
                            => (say'.pc = "returned" /\ say'.ret = -1
                                /\ say'.reads = say.reads)
                       /\ (ms >= 0 /\ f = "voice")
                            => /\ say'.reads = say.reads + 1
                               /\ IF n < nbytes
                                  THEN say'.pc = "returned" /\ say'.ret = 0
                                  ELSE say'.pc = "loop"
                       /\ (ms >= 0 /\ f \notin {"none", "voice"})
                            => (say'.pc = "loop" /\ say'.reads = say.reads
                                /\ say'.written = say.written)]_vars
    /\ (say.pc = "loop") ~> (say.pc = "returned")

\* The playback ended with status 0 on its second voice frame: a full chunk
\* first, then a chunk one byte short of the frame.
C23_Witness ==
    /\ say.pc = "returned" /\ say.exit = "end" /\ say.ret = 0
    /\ say.reads = 2
    /\ say.written = 2 * VOISE_BUFFER_SIZE - 1

(***************************************************************************)
(* C24                                                                       *)
(***************************************************************************)
\* C24: every voise_write processed in Listening issues exactly one remote
\* call, a stop or a push and never both or none: the frame of a finalizing
\* branch is answered by the stop alone, every other frame, the one that
\* confirms speech included, by the push alone.
C24_OneRemoteCall ==
    [][Processed
        => /\ last'.call \in {"stop", "push"}
           /\ last'.call = "stop" <=> last'.rule \in {"initsil", "maxsil", "abs"}
           /\ last'.call = "stop" => live' = live - 1
           /\ last'.call = "push" => live' = live
           /\ Onset => last'.call = "push"]_vars

\* A successful finalize by the trailing-silence rule, after the frame that
\* confirmed speech had been pushed: the stop is the only call of the write.
C24_Witness ==
    /\ last.op = "write" /\ last.call = "stop" /\ last.rule = "maxsil"
    /\ last.ret = 0
    /\ state = "DONE"
    /\ frameNo = 3
    /\ live = 0

(***************************************************************************)
(* C25                                                                       *)
(***************************************************************************)
\* C25: once the enabled absolute timeout has elapsed, a frame written in
\* Listening is pushed only as a pre-onset voiced frame, and at most two such
\* frames follow each other (the first starts the voiced run, the second
\* confirms speech); every other frame, and every frame after speech was
\* heard, is answered by stop-and-collect, which ends Listening: the stop
\* comes no later than the third frame written after the timeout elapsed.
\* And with frames arriving and the clock advancing, an attempt in Listening
\* whose timeout lies within the clock's range eventually leaves Listening.
C25_TimeoutBound ==
    /\ [][(Processed /\ AbsElapsed)
            => /\ last'.call = "push"
                    => /\ heardspeech = 0 /\ VoicedFrame
                       /\ \/ noiseframes = 0 /\ noiseframes' = 1 /\ heardspeech' = 0
                          \/ noiseframes = 1 /\ heardspeech' = 1
               /\ heardspeech = 1 => last'.call = "stop"
               /\ last'.call = "stop" => state' \in {"DONE", "NOT_READY"}
               /\ (last'.call = "push" /\ last'.ret < 0) => state' = "NOT_READY"]_vars
    /\ (Listening /\ dsp.alloc /\ abs_timeout > 0 /\ start_time + abs_timeout <= MaxTime)
            ~> ~Listening

\* Two voiced frames were pushed, the second confirming speech, and the third
\* frame was finalized by the absolute timeout.
C25_Witness ==
    /\ last.op = "write" /\ last.call = "stop" /\ last.rule = "abs"
    /\ frameNo = 3
    /\ heardspeech = 1
    /\ now - start_time >= abs_timeout
    /\ state = "DONE"

(***************************************************************************)
(* C26                                                                       *)
(***************************************************************************)
\* The step is a voise_write that ran through the detection code.
Written ==
    /\ Usable /\ dsp.alloc
    /\ \E lv \in FrameLevels, s \in StopOutcomes, p \in BOOLEAN : voise_write(lv, s, p)

\* C26: after every voise_write noiseframes is between 0 and
\* VOISE_NOISE_FRAMES and is 0 when heardspeech is set; it grows only on a
\* voiced frame written before speech was heard, is 0 after the frame that
\* confirms speech and after a silent frame that does not finalize.
C26_NoiseFrames ==
    [][Written
        => /\ noiseframes' \in 0..VOISE_NOISE_FRAMES
           /\ heardspeech' = 1 => noiseframes' = 0
           /\ noiseframes' > noiseframes => (heardspeech = 0 /\ VoicedFrame)
           /\ (heardspeech = 0 /\ heardspeech' = 1) => noiseframes' = 0
           /\ (~VoicedFrame /\ last'.call = "push") => noiseframes' = 0]_vars

\* The second voiced frame of an attempt: the counter had reached
\* VOISE_NOISE_FRAMES, the frame confirmed speech and the counter is 0 again.
C26_Witness ==
    /\ last.op = "write" /\ last.rule = "speech" /\ last.call = "push"
    /\ frameNo = 2
    /\ heardspeech = 1
    /\ noiseframes = 0

(***************************************************************************)
(* C27                                                                       *)
(***************************************************************************)
\* C27: before speech is heard, a voiced frame clears the accumulated silence
\* (and, alone, does not confirm speech), so the initial-silence rule fires
\* only on a silent frame whose uninterrupted run, counted from the last
\* voiced frame, has reached initsil: a silent frame whose run is shorter is
\* not finalized by it, however much silence the attempt had before.
C27_SilenceRun ==
    [][(Processed /\ heardspeech = 0)
        => /\ last'.rule = "speech" => dsp'.totalsilence = 0
           /\ (last'.rule = "speech" /\ noiseframes = 0) => heardspeech' = 0
           /\ last'.rule # "speech" => dsp'.totalsilence = dsp.totalsilence + FrameMs
           /\ (initsil > 0 /\ last'.rule = "initsil") => dsp'.totalsilence >= initsil
           /\ (initsil > 0 /\ last'.rule # "speech" /\ dsp'.totalsilence < initsil)
                => last'.rule # "initsil"]_vars

\* Silent, voiced, silent with initsil of two frames: the attempt has two
\* silent frames but a run of one, and the third frame is pushed.
C27_Witness ==
    /\ last.op = "write" /\ last.rule = "silence" /\ last.call = "push"
    /\ initsil = 2 * FrameMs
    /\ frameNo = 3
    /\ heardspeech = 0
    /\ dsp.totalsilence = FrameMs
    /\ state = "READY"

(***************************************************************************)
(* C28                                                                       *)
(***************************************************************************)
\* C28: a voise_write that finalizes successfully leaves exactly the
\* have-results flag set: QUIET and SPOKE, raised when speech was confirmed
\* earlier in the attempt, are cleared as the state becomes DONE.
C28_FlagsReplaced ==
    [][(Processed /\ last'.call = "stop" /\ last'.ret = 0)
        => /\ state' = "DONE"
           /\ flags' = {"HAVE_RESULTS"}
           /\ flags' \cap SpeechFlags = {}]_vars

\* An attempt in which speech was confirmed (QUIET and SPOKE raised) ended
\* DONE by the trailing-silence rule with only the have-results flag set.
C28_Witness ==
    /\ last.op = "write" /\ last.rule = "maxsil" /\ last.ret = 0
    /\ heardspeech = 1
    /\ state = "DONE"
    /\ flags = {"HAVE_RESULTS"}
    /\ results # <<>>

(***************************************************************************)
(* C29                                                                       *)
(***************************************************************************)
\* C29: voise_say_exec releases what it acquired exactly once on every
\* return path: a loaded configuration is destroyed once, an added module
\* user is removed once, a client returned by voise_init is closed once; and
\* nothing is released twice or before it was acquired.
C29_ReleasedOnce ==
    /\ say.cfg_destroys <= 1 /\ say.closes <= 1 /\ say.user_removes <= say.user_adds
    /\ say.cfg_destroys = 1 => say.vcfg = "destroyed"
    /\ say.closes = 1 => say.client = "closed"
    /\ say.pc = "loop" =>
          /\ say.cfg_destroys = 1 /\ say.user_adds = 1
          /\ say.client = "open" /\ say.closes = 0 /\ say.user_removes = 0
    /\ say.pc = "returned" =>
          /\ say.cfg_destroys = (IF say.vcfg = "none" THEN 0 ELSE 1)
          /\ say.user_removes = say.user_adds
          /\ say.closes = (IF say.client = "NULL" THEN 0 ELSE 1)
          /\ say.exit \in {"refused", "wait", "hangup", "end"} =>
                say.cfg_destroys = 1 /\ say.user_removes = 1 /\ say.closes = 1
          /\ say.exit \in {"wformat", "rformat", "noconnect"} =>
                say.cfg_destroys = 1 /\ say.user_removes = 1 /\ say.closes = 0

\* The caller hung up during the playback: the function has returned with
\* the configuration destroyed, the module user removed and the client
\* closed, once each.
C29_Witness ==
    /\ say.pc = "returned" /\ say.exit = "hangup"
    /\ say.iterations = 2
    /\ say.cfg_destroys = 1 /\ say.user_adds = 1 /\ say.user_removes = 1
    /\ say.client = "closed" /\ say.closes = 1

====
